---- MODULE Spec2Model ----
(***************************************************************************)
(* Model of git-buildpackage's source-archive helpers (gbp/pkg/__init__.py):*)
(* parse_archive_filename, PkgPolicy.is_valid_orig_archive,                 *)
(* PkgPolicy.symlink_orig and UpstreamSource, of git_archive_submodules,   *)
(* write_wc, drop_index and clone_index                                    *)
(* (gbp/scripts/common/buildpackage.py) and of import_spec_patches         *)
(* (gbp/scripts/import_srpm.py).                                           *)
(*                                                                         *)
(* Python strings are modelled as sequences of one-character strings, so   *)
(* that splitting, joining, stripping and pattern matching are computed    *)
(* character by character.  Python's None is the one-element sequence      *)
(* <<"None">>, which is no character string.                               *)
(***************************************************************************)
EXTENDS Integers, Sequences, FiniteSets, TLC

VARIABLES
    filename,     \* argument of parse_archive_filename / is_valid_orig_archive
    parsed,       \* <<>> before the call, <<(base, fmt, comp)>> after it
    valid_orig,   \* <<>> before the call, <<bool>> after is_valid_orig_archive
    name,         \* the path given to UpstreamSource(name, unpacked)
    unpacked_arg, \* the 'unpacked' argument of the constructor
    fs_dirs,      \* the paths that are directories in the file system
    self,         \* <<>> before construction, <<the UpstreamSource>> after it
    guessed,      \* <<>>, or <<[extra, ret]>> after guess_version(extra)
    link_fs,      \* symlink_orig's file system: file path -> directory entry
    link_call,    \* <<>>, or <<the last symlink_orig call and its result>>
    fs_files,     \* the paths that are regular files in the file system
    last_op,      \* <<>>, or <<the last unpack/pack call and its outcome>>
    ga_args,      \* <<>>, or <<the arguments of git_archive_submodules>>
    ga_pc,        \* the statement git_archive_submodules is about to execute
    ga_i,         \* index of the loop's current submodule
    ga_tempdir,   \* whether the call's temporary directory exists
    ga_main,      \* the trees merged in main_archive, in order
    ga_sub,       \* <<>>, or <<the submodule whose tree submodule_archive holds>>
    ga_output,    \* <<>>, or <<how written, the trees in the output file>>
    ga_exc,       \* <<>>, or <<the exception in flight>>
    ga_log,       \* the external steps performed so far, in order
    dirs0,        \* the directories of the file system when the unit was made
    is_dir_ret,   \* <<>>, or <<what the last src.is_dir() returned>>
    git_index,    \* the file .git/index: <<>> if absent, else <<its content>>
    gbp_index,    \* the file .git/gbp_index: <<>> if absent, else <<content>>
    wc_call,      \* <<>>, or <<the last write_wc / drop_index call>>
    ip_queue,     \* <<>>, or <<the patch series import_spec_patches got>>
    ip_pc,        \* the statement import_spec_patches is about to execute
    ip_i,         \* index of the patch the loop is at
    ip_head,      \* <<>>, or <<the commit HEAD points to>>
    ip_orig_head, \* <<>>, or <<the commit rev_parse("HEAD") returned>>
    ip_exc,       \* <<>>, or <<the exception import_spec_patches raised>>
    ip_log        \* the calls made on the repository, in order

parse_vars  == <<filename, parsed, valid_orig>>
source_vars == <<name, unpacked_arg, fs_dirs, self, guessed>>
link_vars   == <<link_fs, link_call>>
pack_vars   == <<fs_files, last_op>>
archive_vars == <<ga_args, ga_pc, ga_i, ga_tempdir, ga_main, ga_sub,
                  ga_output, ga_exc, ga_log>>
stale_vars  == <<dirs0, is_dir_ret>>
index_vars  == <<git_index, gbp_index, wc_call>>
import_vars == <<ip_queue, ip_pc, ip_i, ip_head, ip_orig_head, ip_exc, ip_log>>
vars == <<parse_vars, source_vars, link_vars, pack_vars, archive_vars,
          stale_vars, index_vars, import_vars>>

None == <<"None">>

(***************************************************************************)
(* Words of the format tables, as character sequences.                     *)
(***************************************************************************)
dot  == <<".">>
tar  == <<"t","a","r">>
zip  == <<"z","i","p">>
gzip == <<"g","z","i","p">>
bzip2 == <<"b","z","i","p","2">>
lzma == <<"l","z","m","a">>
xz   == <<"x","z">>
gz   == <<"g","z">>
bz2  == <<"b","z","2">>
tgz  == <<"t","g","z">>
tbz2 == <<"t","b","z","2">>
tlz  == <<"t","l","z">>
txz  == <<"t","x","z">>

\* a mistyped extension in the table ('bz' for 'bz2')
compressor_opts_typo ==
    (gzip  :> [opts |-> <<"-n">>, ext |-> gz]) @@
    (bzip2 :> [opts |-> <<>>,     ext |-> <<"b","z">>]) @@
    (lzma  :> [opts |-> <<>>,     ext |-> lzma]) @@
    (xz    :> [opts |-> <<>>,     ext |-> xz])

\* compressor_opts: name -> [extra options, extension]
compressor_opts ==
    (gzip  :> [opts |-> <<"-n">>, ext |-> gz]) @@
    (bzip2 :> [opts |-> <<>>,     ext |-> bz2]) @@
    (lzma  :> [opts |-> <<>>,     ext |-> lzma]) @@
    (xz    :> [opts |-> <<>>,     ext |-> xz])

arhive_formats == {tar, zip}

\* a wrong pair in the alias table ('tbz2' mapped to gzip)
archive_ext_aliases_wrongpair ==
    (tgz  :> <<tar, gzip>>) @@
    (tbz2 :> <<tar, gzip>>) @@
    (tlz  :> <<tar, lzma>>) @@
    (txz  :> <<tar, xz>>)

archive_ext_aliases ==
    (tgz  :> <<tar, gzip>>) @@
    (tbz2 :> <<tar, bzip2>>) @@
    (tlz  :> <<tar, lzma>>) @@
    (txz  :> <<tar, xz>>)

(***************************************************************************)
(* str.split(sep) and sep.join(list) for a one-character separator.        *)
(***************************************************************************)
RECURSIVE Flatten(_)
Flatten(ss) == IF Len(ss) = 0 THEN <<>> ELSE ss[1] \o Flatten(Tail(ss))

RECURSIVE split(_, _)
split(s, sep) ==
    IF \A i \in 1..Len(s) : s[i] # sep
    THEN <<s>>
    ELSE LET i == CHOOSE k \in 1..Len(s) :
                      s[k] = sep /\ \A j \in 1..(k-1) : s[j] # sep
         IN  <<SubSeq(s, 1, i-1)>> \o split(SubSeq(s, i+1, Len(s)), sep)

\* joining the pieces without putting the separator back
join_nosep(parts, sep) == Flatten(parts)

RECURSIVE join(_, _)
join(parts, sep) ==
    IF Len(parts) = 0 THEN <<>>
    ELSE IF Len(parts) = 1 THEN parts[1]
    ELSE parts[1] \o <<sep>> \o join(Tail(parts), sep)

\* split[:-k]
DropLast(parts, k) == SubSeq(parts, 1, Len(parts) - k)

\* a classifier that strips an extension it does not recognise
parse_archive_filename_strips(fname) ==
    LET sp   == split(fname, ".")
        n    == Len(sp)
        last == sp[n]
        hits == {c \in DOMAIN compressor_opts : compressor_opts[c].ext = last}
    IN  IF n > 1
        THEN IF last \in DOMAIN archive_ext_aliases
             THEN <<join(DropLast(sp, 1), "."),
                    archive_ext_aliases[last][1], archive_ext_aliases[last][2]>>
             ELSE IF last \in arhive_formats
             THEN <<join(DropLast(sp, 1), "."), last, None>>
             ELSE IF hits # {}
             THEN LET c == CHOOSE x \in hits : TRUE
                  IN  IF n > 2 /\ sp[n-1] \in arhive_formats
                      THEN <<join(DropLast(sp, 2), "."), sp[n-1], c>>
                      ELSE <<join(DropLast(sp, 1), "."), None, c>>
             ELSE <<join(DropLast(sp, 1), "."), None, None>>
        ELSE <<fname, None, None>>

(***************************************************************************)
(* parse_archive_filename(filename) -> (base_name, archive_fmt, compression)*)
(***************************************************************************)
parse_archive_filename(fname) ==
    LET sp   == split(fname, ".")
        n    == Len(sp)
        last == sp[n]
        \* the loop over compressor_opts.iteritems(); extensions are unique,
        \* so at most one entry matches whatever the iteration order
        hits == {c \in DOMAIN compressor_opts : compressor_opts[c].ext = last}
    IN  IF n > 1
        THEN IF last \in DOMAIN archive_ext_aliases
             THEN <<join(DropLast(sp, 1), "."),
                    archive_ext_aliases[last][1], archive_ext_aliases[last][2]>>
             ELSE IF last \in arhive_formats
             THEN <<join(DropLast(sp, 1), "."), last, None>>
             ELSE IF hits # {}
             THEN LET c == CHOOSE x \in hits : TRUE
                  IN  IF n > 2 /\ sp[n-1] \in arhive_formats
                      THEN <<join(DropLast(sp, 2), "."), sp[n-1], c>>
                      ELSE <<join(DropLast(sp, 1), "."), None, c>>
             ELSE <<fname, None, None>>
        ELSE <<fname, None, None>>

\* a validity check that forgets the compression
is_valid_orig_archive_nocomp(fname) ==
    LET r == parse_archive_filename(fname)
    IN  r[2] = tar

\* PkgPolicy.is_valid_orig_archive(filename); None and '' are the falsy values
is_valid_orig_archive(fname) ==
    LET r == parse_archive_filename(fname)
    IN  r[2] = tar /\ r[3] # None /\ r[3] # <<>>

(***************************************************************************)
(* Inputs of the filename classifier: a base followed by up to             *)
(* MaxPieces pieces.                                                       *)
(***************************************************************************)
MaxPieces == 3

SeqsUpTo(S, n) == UNION {[1..k -> S] : k \in 0..n}

ParseBases == {<<>>, <<"a","b","c">>, <<"a",".","b">>, gz}

ParsePieces ==
    {dot \o w : w \in {tar, zip, gz, bz2, lzma, xz, tgz, tbz2, tlz, txz,
                       <<"f","o","o">>}}
    \cup {dot, <<"x">>}

ParseInputs == {b \o Flatten(ps) : b \in ParseBases, ps \in SeqsUpTo(ParsePieces, MaxPieces)}

\* the state of the part of the program a specification does not exercise
IdleParse  == filename = <<>> /\ parsed = <<>> /\ valid_orig = <<>>
IdleSource ==
    /\ name = <<>> /\ unpacked_arg = None /\ fs_dirs = {}
    /\ self = <<>> /\ guessed = <<>>
IdleLink   == link_fs = <<>> /\ link_call = <<>>
IdlePack   == fs_files = {} /\ last_op = <<>>
IdleStale   == dirs0 = {} /\ is_dir_ret = <<>>
IdleIndex   == git_index = <<>> /\ gbp_index = <<>> /\ wc_call = <<>>
IdleImport  ==
    /\ ip_queue = <<>> /\ ip_pc = "idle" /\ ip_i = 0 /\ ip_head = <<>>
    /\ ip_orig_head = <<>> /\ ip_exc = <<>> /\ ip_log = <<>>
IdleArchive ==
    /\ ga_args = <<>> /\ ga_pc = "idle" /\ ga_i = 0 /\ ga_tempdir = FALSE
    /\ ga_main = <<>> /\ ga_sub = <<>> /\ ga_output = <<>>
    /\ ga_exc = <<>> /\ ga_log = <<>>

InitParse ==
    /\ filename \in ParseInputs
    /\ parsed = <<>>
    /\ valid_orig = <<>>
    /\ IdleSource
    /\ IdleLink
    /\ IdlePack
    /\ IdleArchive
    /\ IdleStale
    /\ IdleIndex
    /\ IdleImport

ParseArchiveFilename ==
    /\ parsed = <<>>
    /\ parsed' = <<parse_archive_filename(filename)>>
    /\ UNCHANGED <<filename, valid_orig, source_vars, link_vars, pack_vars, archive_vars,
                   stale_vars, index_vars, import_vars>>

IsValidOrigArchive ==
    /\ valid_orig = <<>>
    /\ valid_orig' = <<is_valid_orig_archive(filename)>>
    /\ UNCHANGED <<filename, parsed, source_vars, link_vars, pack_vars, archive_vars,
                   stale_vars, index_vars, import_vars>>

NextParse == ParseArchiveFilename \/ IsValidOrigArchive

SpecParse == InitParse /\ [][NextParse]_vars

(***************************************************************************)
(* Properties of the filename classifier, stated on the text of the file   *)
(* name and not through split/join.                                        *)
(***************************************************************************)
EndsWith(s, suf) ==
    /\ Len(suf) <= Len(s)
    /\ SubSeq(s, Len(s) - Len(suf) + 1, Len(s)) = suf

WithoutSuffix(s, suf) == SubSeq(s, 1, Len(s) - Len(suf))

HasDot(s) == \E i \in 1..Len(s) : s[i] = "."

\* the text after the last dot of a name that has one
LastSegment(s) ==
    LET i == CHOOSE k \in 1..Len(s) :
                 s[k] = "." /\ \A j \in (k+1)..Len(s) : s[j] # "."
    IN  SubSeq(s, i+1, Len(s))

\* C1: a name base.tar.<extension of c> is classified as (base, tar, c),
\* for every registered compression c and every base, dotted or not.
C1_TarCompression ==
    parsed # <<>> =>
        \A c \in {gzip, bzip2, lzma, xz} :
            LET e   == CASE c = gzip -> gz [] c = bzip2 -> bz2
                         [] c = lzma -> lzma [] c = xz -> xz
                suf == dot \o tar \o dot \o e
            IN  EndsWith(filename, suf) =>
                    parsed[1] = <<WithoutSuffix(filename, suf), tar, c>>

C1_Witness ==
    /\ parsed # <<>>
    /\ EndsWith(filename, dot \o tar \o dot \o bz2)
    /\ HasDot(WithoutSuffix(filename, dot \o tar \o dot \o bz2))
    /\ parsed[1][3] = bzip2

\* C2: a name base.<alias> is classified as (base, fmt, comp) of the alias
\* (tgz, tbz2, tlz, txz), for every base.
C2_CombinedAlias ==
    parsed # <<>> =>
        \A a \in {tgz, tbz2, tlz, txz} :
            LET pair == CASE a = tgz -> <<tar, gzip>> [] a = tbz2 -> <<tar, bzip2>>
                          [] a = tlz -> <<tar, lzma>> [] a = txz -> <<tar, xz>>
                suf  == dot \o a
            IN  EndsWith(filename, suf) =>
                    parsed[1] = <<WithoutSuffix(filename, suf), pair[1], pair[2]>>

C2_Witness ==
    /\ parsed # <<>>
    /\ EndsWith(filename, dot \o tar \o dot \o tbz2)
    /\ parsed[1] = <<WithoutSuffix(filename, dot \o tbz2), tar, bzip2>>

\* C3: a name without a dot, or whose last dot-separated segment is no
\* alias, container format or compression extension, is returned whole
\* with no format and no compression, whatever its earlier segments are.
C3_UnrecognisedKeptWhole ==
    parsed # <<>> =>
        ( (~HasDot(filename) \/
           LastSegment(filename) \notin
               ({tgz, tbz2, tlz, txz} \cup {tar, zip} \cup {gz, bz2, lzma, xz}))
          => parsed[1] = <<filename, None, None>> )

C3_Witness ==
    /\ parsed # <<>>
    /\ filename = <<"a","b","c">> \o dot \o tar \o dot \o <<"f","o","o">>
    /\ parsed[1] = <<filename, None, None>>

\* C4: when format and compression are both present the name is
\* base.fmt.<extension> or base.<alias of (fmt, comp)>; when both are
\* absent the base is the name itself.
C4_ResultRebuildsName ==
    parsed # <<>> =>
        LET base == parsed[1][1]
            fmt  == parsed[1][2]
            comp == parsed[1][3]
        IN  /\ (fmt # None /\ comp # None) =>
                   \/ /\ comp \in DOMAIN compressor_opts
                      /\ filename = base \o dot \o fmt \o dot
                                         \o compressor_opts[comp].ext
                   \/ \E a \in DOMAIN archive_ext_aliases :
                         /\ archive_ext_aliases[a] = <<fmt, comp>>
                         /\ filename = base \o dot \o a
            /\ (fmt = None /\ comp = None) => base = filename

C4_Witness ==
    /\ parsed # <<>>
    /\ parsed[1][2] = zip
    /\ parsed[1][3] = gzip
    /\ HasDot(parsed[1][1])

\* the names of compressed tar archives: *.tar.<extension> and *.<alias>
IsCompressedTarName(s) ==
    \/ \E e \in {gz, bz2, lzma, xz} : EndsWith(s, dot \o tar \o dot \o e)
    \/ \E a \in {tgz, tbz2, tlz, txz} : EndsWith(s, dot \o a)

\* C5: is_valid_orig_archive is True exactly when the classification has
\* format tar and a compression, that is exactly for the names
\* *.tar.<extension> and *.<alias>; bare tar, zip, compression-only and
\* unrecognised names give False.
C5_ValidOrigIffCompressedTar ==
    (valid_orig # <<>> /\ parsed # <<>>) =>
        /\ valid_orig[1] = (parsed[1][2] = tar /\ parsed[1][3] # None)
        /\ valid_orig[1] = IsCompressedTarName(filename)

C5_Witness ==
    /\ valid_orig = <<FALSE>>
    /\ parsed # <<>>
    /\ parsed[1][2] = zip
    /\ parsed[1][3] = gzip

(***************************************************************************)
(* UpstreamSource.  The object is a record of its attributes; the file     *)
(* system is the set fs_dirs of the paths that are directories.            *)
(***************************************************************************)
\* str.rstrip(ch)
RECURSIVE rstrip(_, _)
rstrip(s, ch) ==
    IF Len(s) > 0 /\ s[Len(s)] = ch
    THEN rstrip(SubSeq(s, 1, Len(s) - 1), ch)
    ELSE s

\* os.path.basename(p): the text after the last '/'
basename(p) ==
    IF \A i \in 1..Len(p) : p[i] # "/"
    THEN p
    ELSE LET i == CHOOSE k \in 1..Len(p) :
                      p[k] = "/" /\ \A j \in (k+1)..Len(p) : p[j] # "/"
         IN  SubSeq(p, i+1, Len(p))

\* os.path.isdir(p): '' is no directory, '/' is one, 'x/' is one iff 'x' is
isdir(dirs, p) ==
    IF p = <<>> THEN FALSE
    ELSE IF rstrip(p, "/") = <<>> THEN TRUE
    ELSE rstrip(p, "/") \in dirs

\* UpstreamSource.path
path(obj) == rstrip(obj._path, "/")

\* an is_dir that answers from the unit's fields, not the file system
is_dir_from_fields(obj, dirs) == obj.unpacked = path(obj)

\* UpstreamSource.is_dir(): asks the file system each time it is called
is_dir(obj, dirs) == isdir(dirs, obj._path)

\* UpstreamSource._check_orig()
_check_orig(obj, dirs) ==
    IF is_dir(obj, dirs)
    THEN [obj EXCEPT !._orig = FALSE, !._tarball = FALSE]
    ELSE [obj EXCEPT !._tarball = (obj._archive_fmt = tar),
                     !._orig = is_valid_orig_archive(basename(path(obj)))]

\* a constructor that keeps the caller's 'unpacked' for a directory
__init__keeps_unpacked(nm, unp, dirs) ==
    LET o0 == [_orig |-> FALSE, _tarball |-> FALSE, _path |-> nm,
               unpacked |-> unp, _filename_base |-> None,
               _archive_fmt |-> None, _compression |-> None]
        r  == parse_archive_filename(basename(path(o0)))
        o1 == [o0 EXCEPT !._filename_base = r[1], !._archive_fmt = r[2],
                         !._compression = r[3]]
        o2 == _check_orig(o1, dirs)
    IN  IF is_dir(o2, dirs) /\ unp = None
        THEN [o2 EXCEPT !.unpacked = path(o2)]
        ELSE o2

\* UpstreamSource.__init__(name, unpacked)
__init__(nm, unp, dirs) ==
    LET o0 == [_orig |-> FALSE, _tarball |-> FALSE, _path |-> nm,
               unpacked |-> unp, _filename_base |-> None,
               _archive_fmt |-> None, _compression |-> None]
        r  == parse_archive_filename(basename(path(o0)))
        o1 == [o0 EXCEPT !._filename_base = r[1], !._archive_fmt = r[2],
                         !._compression = r[3]]
        o2 == _check_orig(o1, dirs)
    IN  IF is_dir(o2, dirs)
        THEN [o2 EXCEPT !.unpacked = path(o2)]
        ELSE o2

\* UpstreamSource.known_compressions(): the extensions of the table
known_compressions == {compressor_opts[c].ext : c \in DOMAIN compressor_opts}

(***************************************************************************)
(* guess_version.  Its patterns all have the shape                         *)
(*   ^ package-group sep version-group marker extensions                   *)
(* with package-group = [P]+ and version-group = [F] then [R] repeated,    *)
(* and are kept as records: package, vfirst and vrest are the character    *)
(* classes, extensions is the set of texts one of which must follow.       *)
(***************************************************************************)
Lower == {"a","b","c","d","e","f","g","h","i","j","k","l","m",
          "n","o","p","q","r","s","t","u","v","w","x","y","z"}
Upper == {"A","B","C","D","E","F","G","H","I","J","K","L","M",
          "N","O","P","Q","R","S","T","U","V","W","X","Y","Z"}
Digits == {"0","1","2","3","4","5","6","7","8","9"}

version_chars == Lower \cup Upper \cup Digits \cup {".", "~", "-", ":", "+"}

orig_marker == <<".","o","r","i","g">>

StartsWithAt(s, k, lit) ==
    /\ k - 1 + Len(lit) <= Len(s)
    /\ SubSeq(s, k, k - 1 + Len(lit)) = lit

\* the (package end, version end) pairs at which pattern f matches s
Matches(f, s) ==
    LET pkg_ends == {i \in 1..(Len(s) - 1) :
                        s[i+1] = f.sep /\ \A k \in 1..i : s[k] \in f.package}
        ver_ends(i) == {j \in (i+2)..Len(s) :
                        /\ s[i+2] \in f.vfirst
                        /\ \A k \in (i+3)..j : s[k] \in f.vrest
                        /\ \E e \in f.extensions :
                               StartsWithAt(s, j + 1, f.marker \o e)}
    IN  UNION {{<<i, j>> : j \in ver_ends(i)} : i \in pkg_ends}

Max(S) == CHOOSE a \in S : \A b \in S : b <= a

\* re.match(f, s): both groups are greedy, the package group first;
\* None without a match, else (m.group('package'), m.group('version'))
re_match(f, s) ==
    LET ms == Matches(f, s)
    IN  IF ms = {} THEN None
        ELSE LET i == Max({m[1] : m \in ms})
                 j == Max({m[2] : m \in {x \in ms : x[1] = i}})
             IN  <<SubSeq(s, 1, i), SubSeq(s, i + 2, j)>>

\* the built-in patterns tried in the opposite order
version_filters_swapped(extensions) ==
    << [package |-> Lower \cup Upper \cup Digits \cup {".", "+", "-"}, sep |-> "-",
        vfirst |-> Digits, vrest |-> version_chars,
        marker |-> <<>>, extensions |-> extensions],
       [package |-> Lower \cup Digits \cup {".", "+", "-"}, sep |-> "_",
        vfirst |-> version_chars, vrest |-> version_chars,
        marker |-> orig_marker, extensions |-> extensions] >>

\* the two built-in patterns, for the suffix 'extensions'
version_filters(extensions) ==
    << [package |-> Lower \cup Digits \cup {".", "+", "-"}, sep |-> "_",
        vfirst |-> version_chars, vrest |-> version_chars,
        marker |-> orig_marker, extensions |-> extensions],
       [package |-> Lower \cup Upper \cup Digits \cup {".", "+", "-"}, sep |-> "-",
        vfirst |-> Digits, vrest |-> version_chars,
        marker |-> <<>>, extensions |-> extensions] >>

\* the first match of the patterns fs on s, None when there is none
RECURSIVE first_match(_, _)
first_match(fs, s) ==
    IF Len(fs) = 0 THEN None
    ELSE LET m == re_match(fs[1], s)
         IN  IF m # None THEN m ELSE first_match(Tail(fs), s)

\* UpstreamSource.guess_version(extra_regex).  extra_regex is r'' (<<>>) or
\* a pattern string, kept as <<its record>>.  version_filters is the list
\* map() returned, and 'extra_regex + version_filters' adds a str to a
\* list: Python raises TypeError.
guess_version(obj, extra_regex, dirs) ==
    LET extensions == IF is_dir(obj, dirs) THEN {<<>>}
                      ELSE {dot \o tar \o dot \o e : e \in known_compressions}
    IN  IF extra_regex # <<>>
        THEN [exc |-> "TypeError", val |-> None]
        ELSE [exc |-> "none",
              val |-> first_match(version_filters(extensions),
                                  basename(path(obj)))]

(***************************************************************************)
(* Inputs and actions of UpstreamSource.                                   *)
(***************************************************************************)
MaxTail == 3
MaxSlashes == 2

\* names for guess_version: package part, separator, version part and a
\* tail of up to MaxTail pieces
GuessPkgs == {<<>>, <<"f","o","o","-","B","a","r">>, <<"f","o","o","-","b","a","r">>, <<"g","i","t","-","b","a","r">>, <<"a","-","1",".","t","a","r",".","g","z">>}
GuessSeps == {<<"_">>, <<"-">>}
GuessVers == {<<"0",".","2">>, <<"0",".","2","-","r","c","1">>, <<"a",".","b">>, <<"2">>}
TailPieces == {orig_marker, dot \o tar, dot \o gz, dot \o lzma, <<"x">>}

GuessNames ==
    {p \o sp \o v \o Flatten(t) :
        p \in GuessPkgs, sp \in GuessSeps, v \in GuessVers,
        t \in SeqsUpTo(TailPieces, MaxTail)}

\* an extra pattern a caller may pass:
\*   ^(?P<package>[a-z]+)-(?P<version>[a-zA-Z\d\.\~\-\:\+]+)\.tar\.gz
extra_pattern ==
    [package |-> Lower, sep |-> "-", vfirst |-> version_chars,
     vrest |-> version_chars, marker |-> <<>>,
     extensions |-> {dot \o tar \o dot \o gz}]

ExtraRegexes == {<<>>, <<extra_pattern>>}

\* names for the constructor: with directory parts and trailing slashes
SourceBases == {<<>>, <<"f","o","o",".","t","a","r",".","g","z">>, <<"d","/","f","o","o">>, <<"d","/","p","k","g","-","1",".","0">>, <<"f","o","o">>, <<"f","o","o",".","z","i","p">>}

Slashes(n) == [i \in 1..n |-> "/"]

SourceNames == {b \o Slashes(n) : b \in SourceBases, n \in 0..MaxSlashes}

UnpackedArgs == {None, <<"/","u">>}

InitGuess ==
    /\ name \in GuessNames
    /\ unpacked_arg = None
    /\ fs_dirs \in {{}, {name}}
    /\ self = <<>>
    /\ guessed = <<>>
    /\ IdleParse
    /\ IdleLink
    /\ IdlePack
    /\ IdleArchive
    /\ IdleStale
    /\ IdleIndex
    /\ IdleImport

InitSource ==
    /\ name \in SourceNames
    /\ unpacked_arg \in UnpackedArgs
    /\ fs_dirs \in {{}, {rstrip(name, "/")}}
    /\ self = <<>>
    /\ guessed = <<>>
    /\ IdleParse
    /\ IdleLink
    /\ IdlePack
    /\ IdleArchive
    /\ IdleStale
    /\ IdleIndex
    /\ IdleImport

\* src = UpstreamSource(name, unpacked)
Construct ==
    /\ self = <<>>
    /\ self' = <<__init__(name, unpacked_arg, fs_dirs)>>
    /\ UNCHANGED <<name, unpacked_arg, fs_dirs, guessed, parse_vars, link_vars, pack_vars, archive_vars,
                   stale_vars, index_vars, import_vars>>

\* src.guess_version(extra_regex)
GuessVersion ==
    /\ self # <<>>
    /\ \E extra \in ExtraRegexes :
        guessed' = <<[extra |-> extra,
                      ret |-> guess_version(self[1], extra, fs_dirs)]>>
    /\ UNCHANGED <<name, unpacked_arg, fs_dirs, self, parse_vars, link_vars, pack_vars, archive_vars,
                   stale_vars, index_vars, import_vars>>

NextSource == Construct \/ GuessVersion

SpecGuess  == InitGuess /\ [][NextSource]_vars
SpecSource == InitSource /\ [][NextSource]_vars

(***************************************************************************)
(* Properties of guess_version, stated on the text of the name.            *)
(***************************************************************************)
AllIn(w, class) == \A k \in 1..Len(w) : w[k] \in class

\* the ways to cut a prefix of s into package, one separator, version
Cuts(s, sepch) ==
    {<<SubSeq(s, 1, i), SubSeq(s, i + 2, j)>> :
        i \in {k \in 1..Len(s) : k < Len(s) /\ s[k+1] = sepch},
        j \in 2..Len(s)}

\* pv = (package, version) followed in s by marker.tar.<extension>
FollowedByTarExt(s, pv, marker) ==
    \E e \in {gz, bz2, lzma, xz} :
        StartsWithAt(s, Len(pv[1]) + Len(pv[2]) + 2, marker \o dot \o tar \o dot \o e)

\* '<package>_<version>.orig.tar.<ext>', no uppercase letter in the package
UnderscoreForms(s) ==
    {pv \in Cuts(s, "_") :
        /\ Len(pv[1]) > 0 /\ Len(pv[2]) > 0
        /\ AllIn(pv[1], Lower \cup Digits \cup {".", "+", "-"})
        /\ AllIn(pv[2], Lower \cup Upper \cup Digits \cup {".", "~", "-", ":", "+"})
        /\ FollowedByTarExt(s, pv, orig_marker)}

\* '<package>-<version>.tar.<ext>', the version starting with a digit
HyphenForms(s) ==
    {pv \in Cuts(s, "-") :
        /\ Len(pv[1]) > 0 /\ Len(pv[2]) > 0
        /\ AllIn(pv[1], Lower \cup Upper \cup Digits \cup {".", "+", "-"})
        /\ pv[2][1] \in Digits
        /\ AllIn(pv[2], Lower \cup Upper \cup Digits \cup {".", "~", "-", ":", "+"})
        /\ FollowedByTarExt(s, pv, <<>>)}

\* C6: without an extra pattern and for a unit that is no directory,
\* guess_version returns a reading of the name by the '_' convention when
\* there is one, else a reading by the '-' convention when there is one,
\* else None; 'foo-Bar_0.2.orig.tar.gz' and 'foo-Bar-a.b.tar.gz' give None
\* and 'git-bar-0.2-rc1.tar.gz' gives ('git-bar', '0.2-rc1').
C6_BuiltinConventionsInOrder ==
    (guessed # <<>> /\ guessed[1].extra = <<>> /\ name \notin fs_dirs) =>
        LET r == guessed[1].ret
            U == UnderscoreForms(name)
            H == HyphenForms(name)
        IN  /\ r.exc = "none"
            /\ (U # {} => r.val \in U)
            /\ (U = {} /\ H # {} => r.val \in H)
            /\ (U = {} /\ H = {} => r.val = None)
            /\ (name = <<"f","o","o","-","B","a","r","_","0",".","2",".","o","r","i","g",".","t","a","r",".","g","z">> => r.val = None)
            /\ (name = <<"f","o","o","-","B","a","r","-","a",".","b",".","t","a","r",".","g","z">> => r.val = None)
            /\ (name = <<"g","i","t","-","b","a","r","-","0",".","2","-","r","c","1",".","t","a","r",".","g","z">> => r.val = <<<<"g","i","t","-","b","a","r">>, <<"0",".","2","-","r","c","1">>>>)

\* a name both conventions read: the '_' reading is returned
C6_Witness ==
    /\ guessed # <<>>
    /\ guessed[1].extra = <<>>
    /\ name \notin fs_dirs
    /\ UnderscoreForms(name) # {}
    /\ HyphenForms(name) # {}
    /\ guessed[1].ret.val = <<<<"a","-","1",".","t","a","r",".","g","z">>, <<"2">> >>

\* C7: with an extra pattern the call completes without error; the extra
\* pattern's groups are returned when it matches, and otherwise the result
\* is that of the built-in patterns.
C7_ExtraPatternTriedFirst ==
    (guessed # <<>> /\ guessed[1].extra # <<>>) =>
        LET r == guessed[1].ret
            e == re_match(guessed[1].extra[1], basename(path(self[1])))
        IN  /\ r.exc = "none"
            /\ (e # None => r.val = e)
            /\ (e = None => r.val = guess_version(self[1], <<>>, fs_dirs).val)

(***************************************************************************)
(* Properties of the constructor.                                          *)
(***************************************************************************)
\* u is s without its trailing slashes
IsStripped(s, u) ==
    /\ Len(u) <= Len(s)
    /\ u = SubSeq(s, 1, Len(u))
    /\ \A k \in (Len(u)+1)..Len(s) : s[k] = "/"
    /\ (Len(u) > 0 => u[Len(u)] # "/")

Prefixes(s) == {SubSeq(s, 1, k) : k \in 0..Len(s)}

\* C10: a unit whose path is a directory has unpacked = path (the name
\* without trailing slashes), whatever 'unpacked' the caller passed.
C10_DirectoryUnpackedIsPath ==
    self # <<>> =>
        \A u \in Prefixes(name) :
            (IsStripped(name, u) /\ name # <<>> /\ (u = <<>> \/ u \in fs_dirs))
                => self[1].unpacked = u

C10_Witness ==
    /\ self # <<>>
    /\ name = <<"d","/","f","o","o">> \o <<"/","/">>
    /\ fs_dirs = {<<"d","/","f","o","o">>}
    /\ unpacked_arg = <<"/","u">>
    /\ self[1].unpacked = <<"d","/","f","o","o">>

\* UpstreamSource.archive_fmt and UpstreamSource.compression: the values
\* the constructor parsed from the name, returned as stored
archive_fmt(obj) == obj._archive_fmt
compression(obj) == obj._compression

\* C11: a unit whose path is a directory has archive_fmt None and
\* compression None, whatever the directory is called.
C11_DirectoryHasNoFormat ==
    (self # <<>> /\ isdir(fs_dirs, name)) =>
        /\ archive_fmt(self[1]) = None
        /\ compression(self[1]) = None

(***************************************************************************)
(* PkgPolicy.symlink_orig.  The file system maps a file path to its        *)
(* directory entry: nothing, a regular file, a directory or a symbolic     *)
(* link with its target path.                                              *)
(***************************************************************************)
Absent     == [kind |-> "absent",  target |-> <<>>]
File       == [kind |-> "file",    target |-> <<>>]
Dir        == [kind |-> "dir",     target |-> <<>>]
Symlink(t) == [kind |-> "symlink", target |-> t]

\* os.getcwd()
cwd == <<"/","b">>

isabs(p) == Len(p) > 0 /\ p[1] = "/"

\* os.path.join(a, b)
os_path_join(a, b) ==
    IF isabs(b) THEN b
    ELSE IF a = <<>> \/ a[Len(a)] = "/" THEN a \o b
    ELSE a \o <<"/">> \o b

\* the loop of os.path.normpath over the components of an absolute path
RECURSIVE norm_comps(_, _)
norm_comps(comps, acc) ==
    IF Len(comps) = 0 THEN acc
    ELSE LET c == comps[1]
         IN  IF c = <<>> \/ c = dot
             THEN norm_comps(Tail(comps), acc)
             ELSE IF c = <<".", ".">>
             THEN norm_comps(Tail(comps),
                             IF Len(acc) > 0 THEN DropLast(acc, 1) ELSE acc)
             ELSE norm_comps(Tail(comps), Append(acc, c))

\* os.path.normpath(p) for an absolute p with a single leading slash
normpath(p) == <<"/">> \o join(norm_comps(split(p, "/"), <<>>), "/")

\* os.path.abspath(p)
abspath(p) == IF isabs(p) THEN normpath(p) ELSE normpath(os_path_join(cwd, p))

\* os.access(p, os.F_OK): follows symbolic links; a missing target or a
\* loop of links is no access
RECURSIVE access(_, _, _)
access(fs, p, fuel) ==
    IF p \notin DOMAIN fs THEN FALSE
    ELSE IF fs[p].kind = "absent" THEN FALSE
    ELSE IF fs[p].kind = "symlink"
    THEN IF fuel = 0 THEN FALSE ELSE access(fs, fs[p].target, fuel - 1)
    ELSE TRUE

F_OK(fs, p) == access(fs, p, Cardinality(DOMAIN fs))

\* os.unlink(p): OSError for a missing entry and for a directory
os_unlink(fs, p) ==
    IF fs[p].kind \in {"absent", "dir"}
    THEN [err |-> TRUE, fs |-> fs]
    ELSE [err |-> FALSE, fs |-> [fs EXCEPT ![p] = Absent]]

\* os.symlink(src, dst): OSError (EEXIST) when dst has any entry
os_symlink(fs, src, dst) ==
    IF fs[dst].kind # "absent"
    THEN [err |-> TRUE, fs |-> fs]
    ELSE [err |-> FALSE, fs |-> [fs EXCEPT ![dst] = Symlink(src)]]

\* symlink_orig that removes the destination without looking at 'force'
symlink_orig_always_unlinks(orig_file, orig_dir, output_dir, force, fs) ==
    LET od  == abspath(orig_dir)
        out == abspath(output_dir)
        src == os_path_join(od, orig_file)
        dst == os_path_join(out, orig_file)
        un  == IF F_OK(fs, dst) THEN os_unlink(fs, dst)
               ELSE [err |-> FALSE, fs |-> fs]
        ln  == os_symlink(un.fs, src, dst)
    IN  IF od = out THEN [ret |-> TRUE, fs |-> fs]
        ELSE IF ~F_OK(fs, src) THEN [ret |-> FALSE, fs |-> fs]
        ELSE IF un.err THEN [ret |-> FALSE, fs |-> un.fs]
        ELSE IF ln.err THEN [ret |-> FALSE, fs |-> ln.fs]
        ELSE [ret |-> TRUE, fs |-> ln.fs]

\* PkgPolicy.symlink_orig(orig_file, orig_dir, output_dir, force):
\* the value returned and the file system left behind
symlink_orig(orig_file, orig_dir, output_dir, force, fs) ==
    LET od  == abspath(orig_dir)
        out == abspath(output_dir)
        src == os_path_join(od, orig_file)
        dst == os_path_join(out, orig_file)
        un  == IF F_OK(fs, dst) /\ force THEN os_unlink(fs, dst)
               ELSE [err |-> FALSE, fs |-> fs]
        ln  == os_symlink(un.fs, src, dst)
    IN  IF od = out THEN [ret |-> TRUE, fs |-> fs]
        ELSE IF ~F_OK(fs, src) THEN [ret |-> FALSE, fs |-> fs]
        ELSE IF un.err THEN [ret |-> FALSE, fs |-> un.fs]
        ELSE IF ln.err THEN [ret |-> FALSE, fs |-> ln.fs]
        ELSE [ret |-> TRUE, fs |-> ln.fs]

(***************************************************************************)
(* Inputs and actions of symlink_orig.                                     *)
(***************************************************************************)
the_orig_file == <<"f">>

\* directory arguments: absolute, relative, with a trailing slash, with '..'
DirArgs == {<<"/","a">>, <<"/","a","/">>, dot, <<".",".","/","a">>, <<"/","c","/",".",".","/","b">>}

\* the paths symlink_orig can name, and one more file for links to point at
FilePaths == {os_path_join(abspath(d), the_orig_file) : d \in DirArgs}
elsewhere == <<"/","c","/","f">>

Entries == {Absent, File, Dir} \cup {Symlink(t) : t \in FilePaths \cup {elsewhere}}

InitLink ==
    /\ link_fs \in [FilePaths \cup {elsewhere} -> Entries]
    /\ link_fs[elsewhere] \in {Absent, File}
    /\ link_call = <<>>
    /\ IdleParse
    /\ IdleSource
    /\ IdlePack
    /\ IdleArchive
    /\ IdleStale
    /\ IdleIndex
    /\ IdleImport

SymlinkOrig ==
    \E orig_dir \in DirArgs, output_dir \in DirArgs, force \in BOOLEAN :
        LET r == symlink_orig(the_orig_file, orig_dir, output_dir, force, link_fs)
        IN  /\ link_fs' = r.fs
            /\ link_call' = <<[orig_dir |-> orig_dir, output_dir |-> output_dir,
                               force |-> force, before |-> link_fs,
                               ret |-> r.ret]>>
            /\ UNCHANGED <<parse_vars, source_vars, pack_vars, archive_vars,
                   stale_vars, index_vars, import_vars>>

NextLink == SymlinkOrig

SpecLink == InitLink /\ [][NextLink]_vars

(***************************************************************************)
(* Properties of symlink_orig.  The directory each argument stands for is  *)
(* written out here, with the working directory /b.                        *)
(***************************************************************************)
ResolvedDir(d) ==
    CASE d = <<"/","a">>        -> <<"/","a">>
      [] d = <<"/","a","/">>   -> <<"/","a">>
      [] d = dot       -> <<"/","b">>
      [] d = <<".",".","/","a">>   -> <<"/","a">>
      [] d = <<"/","c","/",".",".","/","b">> -> <<"/","b">>

FileIn(d) == ResolvedDir(d) \o <<"/">> \o the_orig_file

\* C8: with force=True, an existing source and a regular file or a symbolic
\* link (valid or dangling) at the destination, the call replaces the
\* destination by a link to the source and returns True.
C8_ForceReplacesDestination ==
    link_call # <<>> =>
        LET c   == link_call[1]
            src == FileIn(c.orig_dir)
            dst == FileIn(c.output_dir)
        IN  ( /\ c.force
              /\ src # dst
              /\ F_OK(c.before, src)
              /\ c.before[dst].kind \in {"file", "symlink"} )
            => (c.ret = TRUE /\ link_fs[dst] = Symlink(src))

PyList(items)  == [type |-> "list",     val |-> items]
PyTuple(items) == [type |-> "tuple",    val |-> items]
PyStr(chars)   == [type |-> "str",      val |-> chars]
PyInt(digits)  == [type |-> "int",      val |-> digits]
PyNone         == [type |-> "NoneType", val |-> <<>>]

\* a truth value that takes only None for false
truth_none_only(v) == v.type # "NoneType"

\* the truth value Python's 'not x' negates
truth(v) ==
    CASE v.type = "NoneType" -> FALSE
      [] v.type = "int"      -> v.val # <<"0">>
      [] OTHER               -> Len(v.val) > 0

\* a raised GbpError; msg is "" for a bare 'raise GbpError'
GbpError(msg) == <<[type |-> "GbpError", msg |-> msg]>>

\* s.rfind(ch), counted from 1; 0 when ch does not occur
rfind(s, ch) ==
    IF \E i \in 1..Len(s) : s[i] = ch
    THEN Max({i \in 1..Len(s) : s[i] = ch})
    ELSE 0

\* os.path.splitext(p): the extension starts at the last dot of the last
\* component, unless only dots precede it there
splitext(p) ==
    LET sep == rfind(p, "/")
        d   == rfind(p, ".")
    IN  IF d > sep /\ \E k \in (sep+1)..(d-1) : p[k] # "."
        THEN <<SubSeq(p, 1, d-1), SubSeq(p, d, Len(p))>>
        ELSE <<p, <<>>>>

\* os.path.dirname(p)
dirname(p) ==
    LET head == SubSeq(p, 1, rfind(p, "/"))
    IN  IF head # <<>> /\ rstrip(head, "/") # <<>>
        THEN rstrip(head, "/")
        ELSE head

\* glob.glob(dir + '/*') for hidden = FALSE and glob.glob(dir + '/.*') for
\* hidden = TRUE: the entries of dir whose name starts (does not start)
\* with a dot
glob(fs, dir, hidden) ==
    LET pre == dir \o <<"/">>
    IN  {p \in fs.dirs \cup fs.files :
            /\ Len(p) > Len(pre)
            /\ SubSeq(p, 1, Len(pre)) = pre
            /\ \A k \in (Len(pre)+1)..Len(p) : p[k] # "/"
            /\ (p[Len(pre)+1] = ".") = hidden}

\* a toplevel search that leaves out the hidden entries
_unpacked_toplevel_visible_only(dir, fs) ==
    LET unpacked == glob(fs, dir, FALSE)
    IN  IF Cardinality(unpacked) = 1 /\ (\A p \in unpacked : isdir(fs.dirs, p))
        THEN CHOOSE p \in unpacked : TRUE
        ELSE os_path_join(dir, dot)

\* UpstreamSource._unpacked_toplevel(dir)
_unpacked_toplevel(dir, fs) ==
    LET unpacked == glob(fs, dir, FALSE) \cup glob(fs, dir, TRUE)
    IN  IF Cardinality(unpacked) = 1 /\ (\A p \in unpacked : isdir(fs.dirs, p))
        THEN CHOOSE p \in unpacked : TRUE
        ELSE os_path_join(dir, dot)

\* what a run of an archive tool leaves in the file system: the entries
\* env.dirs and env.files under dir
extract(fs, dir, env) ==
    [dirs  |-> fs.dirs  \cup {dir \o <<"/">> \o n : n \in env.dirs},
     files |-> fs.files \cup {dir \o <<"/">> \o n : n \in env.files}]

\* UpstreamSource._unpack_zip(dir)
_unpack_zip(obj, dir, fs, env) ==
    [exc   |-> IF env.ok THEN <<>> ELSE GbpError("Unpacking of %s failed"),
     fs    |-> extract(fs, dir, env),
     tools |-> <<[tool |-> "UnpackZipArchive", archive |-> path(obj),
                  dir |-> dir]>>]

\* an unpacking that does not report the failure of the tool
_unpack_tar_swallows_failure(obj, dir, filters, fs, env) ==
    [exc   |-> <<>>,
     fs    |-> extract(fs, dir, env),
     tools |-> <<[tool |-> "UnpackTarArchive", archive |-> path(obj),
                  dir |-> dir, filters |-> filters]>>]

\* UpstreamSource._unpack_tar(dir, filters)
_unpack_tar(obj, dir, filters, fs, env) ==
    [exc   |-> IF env.ok THEN <<>> ELSE GbpError(""),
     fs    |-> extract(fs, dir, env),
     tools |-> <<[tool |-> "UnpackTarArchive", archive |-> path(obj),
                  dir |-> dir, filters |-> filters]>>]

\* a choice of the tool by the archive format parsed from the name
_unpack_archive_by_format(obj, dir, filters, fs, env) ==
    IF obj._archive_fmt = zip
    THEN _unpack_zip(obj, dir, fs, env)
    ELSE _unpack_tar(obj, dir, filters, fs, env)

\* UpstreamSource._unpack_archive(dir, filters)
_unpack_archive(obj, dir, filters, fs, env) ==
    LET ext == splitext(path(obj))[2]
    IN  IF ext \in {<<".","z","i","p">>, <<".","x","p","i">>}
        THEN _unpack_zip(obj, dir, fs, env)
        ELSE _unpack_tar(obj, dir, filters, fs, env)

\* an unpack that looks at its arguments only after the archive tool ran
unpack_checks_late(obj, dir, filters, fs, env) ==
    LET filters1 == IF ~truth(filters) THEN PyList(<<>>) ELSE filters
        r == _unpack_archive(obj, dir, filters1, fs, env)
    IN  IF is_dir(obj, fs.dirs)
        THEN [exc |-> GbpError("Cannot unpack directory %s"), obj |-> obj,
              fs |-> r.fs, tools |-> r.tools]
        ELSE IF filters1.type # "list"
        THEN [exc |-> GbpError("Filters must be a list"), obj |-> obj,
              fs |-> r.fs, tools |-> r.tools]
        ELSE IF r.exc # <<>>
        THEN [exc |-> r.exc, obj |-> obj, fs |-> r.fs, tools |-> r.tools]
        ELSE [exc |-> <<>>,
              obj |-> [obj EXCEPT !.unpacked = _unpacked_toplevel(dir, r.fs)],
              fs |-> r.fs, tools |-> r.tools]

\* UpstreamSource.unpack(dir, filters): the exception raised (<<>> for
\* none), the unit and the file system afterwards, the tools invoked
unpack(obj, dir, filters, fs, env) ==
    IF is_dir(obj, fs.dirs)
    THEN [exc |-> GbpError("Cannot unpack directory %s"), obj |-> obj,
          fs |-> fs, tools |-> <<>>]
    ELSE LET filters1 == IF ~truth(filters) THEN PyList(<<>>) ELSE filters
         IN  IF filters1.type # "list"
             THEN [exc |-> GbpError("Filters must be a list"), obj |-> obj,
                   fs |-> fs, tools |-> <<>>]
             ELSE LET r == _unpack_archive(obj, dir, filters1, fs, env)
                  IN  IF r.exc # <<>>
                      THEN [exc |-> r.exc, obj |-> obj, fs |-> r.fs,
                            tools |-> r.tools]
                      ELSE [exc |-> <<>>,
                            obj |-> [obj EXCEPT !.unpacked =
                                        _unpacked_toplevel(dir, r.fs)],
                            fs |-> r.fs, tools |-> r.tools]

\* s.lstrip(chars)
RECURSIVE lstrip(_, _)
lstrip(s, chars) ==
    IF Len(s) > 0 /\ s[1] \in chars THEN lstrip(Tail(s), chars) ELSE s

\* s.rstrip(chars), chars a set of characters
RECURSIVE rstrip_chars(_, _)
rstrip_chars(s, chars) ==
    IF Len(s) > 0 /\ s[Len(s)] \in chars
    THEN rstrip_chars(SubSeq(s, 1, Len(s) - 1), chars)
    ELSE s

\* a strip that removes the characters from the front only
strip_leading_only(s, chars) == lstrip(s, chars)

\* s.strip(chars): the characters are removed from both ends
strip(s, chars) == rstrip_chars(lstrip(s, chars), chars)

\* the sed expression 's!%s!%s!' % (a, b)
sed_expr(a, b) == <<"s","!">> \o a \o <<"!">> \o b \o <<"!">>

\* the 'transform' of pack: None without a prefix, else the rule that
\* renames pack_this to the stripped prefix, or to '.' if nothing is left
transform(pack_this, newprefix) ==
    IF newprefix # None
    THEN LET stripped == strip(newprefix, {"/", "."})
         IN  IF stripped # <<>>
             THEN sed_expr(pack_this, stripped)
             ELSE sed_expr(pack_this, dot)
    ELSE None

\* a result unit that inherits the unpacked location of the packed one
new_unit_inherits(obj, newarchive, dirs) ==
    __init__(newarchive, obj.unpacked, dirs)

\* type(self)(newarchive): the unit pack returns
new_unit(obj, newarchive, dirs) == __init__(newarchive, None, dirs)

\* UpstreamSource.pack(newarchive, filters, newprefix): the exception
\* raised, the unit itself afterwards, the returned unit (<<>> for none),
\* the file system afterwards, the tools invoked
pack(obj, newarchive, filters, newprefix, fs, env) ==
    IF obj.unpacked = None \/ obj.unpacked = <<>>
    THEN [exc |-> GbpError("Need an unpacked source tree to pack"),
          obj |-> obj, ret |-> <<>>, fs |-> fs, tools |-> <<>>]
    ELSE LET filters1 == IF ~truth(filters) THEN PyList(<<>>) ELSE filters
         IN  IF filters1.type # "list"
             THEN [exc |-> GbpError("Filters must be a list"), obj |-> obj,
                   ret |-> <<>>, fs |-> fs, tools |-> <<>>]
             ELSE LET run_dir   == dirname(rstrip(obj.unpacked, "/"))
                      pack_this == basename(rstrip(obj.unpacked, "/"))
                      call == [tool |-> "PackTarArchive",
                               archive |-> newarchive, dir |-> run_dir,
                               pack_this |-> pack_this, filters |-> filters1,
                               transform |-> transform(pack_this, newprefix)]
                  IN  IF ~env.ok
                      THEN [exc |-> GbpError(""), obj |-> obj,
                            ret |-> <<>>, fs |-> fs, tools |-> <<call>>]
                      ELSE [exc |-> <<>>, obj |-> obj,
                            ret |-> <<new_unit(obj, newarchive, fs.dirs)>>,
                            fs |-> [fs EXCEPT !.files =
                                      IF isdir(fs.dirs, newarchive) THEN @
                                      ELSE @ \cup {newarchive}],
                            tools |-> <<call>>]

(***************************************************************************)
(* The calls of unpack and pack on one unit.  The unit is a tar archive, a *)
(* zip archive or a directory; archives are unpacked into the directory t. *)
(***************************************************************************)
TargetDir   == <<"t">>
a_tarball   == <<"p",".","t","a","r",".","g","z">>
a_zipfile   == <<"p",".","z","i","p">>
a_directory == <<"s","r","c">>
UnpackNames == {a_tarball, a_zipfile, a_directory}

pkg_dir     == <<"p","k","g">>
git_dir     == <<".","g","i","t">>
readme_file == <<"R","E","A","D","M","E">>

\* what one run of an unpacking tool may leave in the target directory
Listings ==
    { [dirs |-> {},                 files |-> {}],
      [dirs |-> {pkg_dir},          files |-> {}],
      [dirs |-> {git_dir},          files |-> {}],
      [dirs |-> {},                 files |-> {readme_file}],
      [dirs |-> {pkg_dir, git_dir}, files |-> {}] }

UnpackEnvs == {[ok |-> ok, dirs |-> l.dirs, files |-> l.files] :
                  ok \in BOOLEAN, l \in Listings}

exclude_git == "--exclude=.git"
FilterArgs ==
    { PyList(<<>>), PyList(<<exclude_git>>), PyList(<<exclude_git, "*.o">>),
      PyTuple(<<>>), PyTuple(<<exclude_git>>),
      PyStr(<<>>), PyStr(<<"x">>),
      PyNone, PyInt(<<"0">>), PyInt(<<"1">>) }

new_zip     == <<"o","/","n",".","z","i","p">>
NewArchives == {new_zip, TargetDir}
NewPrefixes ==
    { None, <<>>, <<"q">>, <<"/","q",".">>, <<"q","/">>, <<".","/">>,
      <<"a",".","b">> }

\* the calls made: each argument takes all its values while the others
\* have their default (filters=[], newprefix=None) or usual value
usual_env   == [ok |-> TRUE, dirs |-> {pkg_dir}, files |-> {}]
UnpackCalls ==
    {c \in [filters : FilterArgs, env : UnpackEnvs] :
        c.filters = PyList(<<>>) \/ c.env = usual_env}
PackCalls ==
    {c \in [newarchive : NewArchives, filters : FilterArgs,
            newprefix : NewPrefixes] :
        \/ c.newarchive = new_zip /\ c.filters = PyList(<<>>)
        \/ c.newarchive = new_zip /\ c.newprefix = None
        \/ c.filters = PyList(<<>>) /\ c.newprefix = None}

InitUnpack ==
    /\ name \in UnpackNames
    /\ unpacked_arg = None
    /\ fs_dirs = {TargetDir} \cup (IF name = a_directory THEN {name} ELSE {})
    /\ fs_files = {n \in {name} : n # a_directory}
    /\ self = <<>>
    /\ guessed = <<>>
    /\ last_op = <<>>
    /\ IdleParse
    /\ IdleLink
    /\ IdleArchive
    /\ IdleStale
    /\ IdleIndex
    /\ IdleImport

\* src.unpack(dir, filters), for one of the given calls
UnpackWith(calls) ==
    /\ self # <<>>
    /\ \E c \in calls :
        LET filters == c.filters
            env == c.env
            r == unpack(self[1], TargetDir, filters,
                        [dirs |-> fs_dirs, files |-> fs_files], env)
        IN  /\ self' = <<r.obj>>
            /\ fs_dirs' = r.fs.dirs
            /\ fs_files' = r.fs.files
            /\ last_op' = <<[op |-> "unpack", target |-> TargetDir,
                             filters |-> filters, newprefix |-> None,
                             ok |-> env.ok, before |-> self[1],
                             exc |-> r.exc, tools |-> r.tools, ret |-> <<>>]>>
    /\ UNCHANGED <<name, unpacked_arg, guessed, parse_vars, link_vars,
                   archive_vars,
                   stale_vars, index_vars, import_vars>>

\* src.unpack(dir, filters)
Unpack == UnpackWith(UnpackCalls)

\* new = src.pack(newarchive, filters, newprefix)
Pack ==
    /\ self # <<>>
    /\ \E c \in PackCalls, ok \in BOOLEAN :
        LET newarchive == c.newarchive
            filters == c.filters
            newprefix == c.newprefix
            r == pack(self[1], newarchive, filters, newprefix,
                      [dirs |-> fs_dirs, files |-> fs_files], [ok |-> ok])
        IN  /\ self' = <<r.obj>>
            /\ fs_dirs' = r.fs.dirs
            /\ fs_files' = r.fs.files
            /\ last_op' = <<[op |-> "pack", target |-> newarchive,
                             filters |-> filters, newprefix |-> newprefix,
                             ok |-> ok, before |-> self[1],
                             exc |-> r.exc, tools |-> r.tools, ret |-> r.ret]>>
    /\ UNCHANGED <<name, unpacked_arg, guessed, parse_vars, link_vars,
                   archive_vars,
                   stale_vars, index_vars, import_vars>>

NextUnpack == Construct \/ Unpack \/ Pack

SpecUnpack == InitUnpack /\ [][NextUnpack]_vars

(***************************************************************************)
(* Properties of unpack and pack.                                          *)
(***************************************************************************)
IsUnpack   == last_op # <<>> /\ last_op[1].op = "unpack"
IsPack     == last_op # <<>> /\ last_op[1].op = "pack"
UsageError == [type |-> "GbpError", msg |-> "Filters must be a list"]

\* C12 as stated: once the unit of an archive has an unpacked location,
\* no later unpack or pack changes it (it is set at most once).
C12_UnpackedSetAtMostOnce ==
    [][(self # <<>> /\ ~isdir(fs_dirs, name) /\ self[1].unpacked # None)
          => self'[1].unpacked = self[1].unpacked]_vars

\* C12, amended: the unpacked location of the unit of an archive changes
\* only in an unpack whose tool succeeded and that raised nothing, and the
\* new value is a location; failed unpacks and all packs leave it as it is.
C12_UnpackedChangesOnlyBySuccessfulUnpack ==
    [][(self # <<>> /\ ~isdir(fs_dirs, name)
            /\ self'[1].unpacked # self[1].unpacked)
          => /\ last_op'[1].op = "unpack"
             /\ last_op'[1].ok
             /\ last_op'[1].exc = <<>>
             /\ last_op'[1].before = self[1]
             /\ self'[1].unpacked # None]_vars

\* a second successful unpack has replaced the location the first one set
C12_Witness ==
    /\ IsUnpack
    /\ last_op[1].exc = <<>>
    /\ last_op[1].before.unpacked = TargetDir \o <<"/">> \o pkg_dir
    /\ self[1].unpacked = TargetDir \o <<"/",".">>

\* C13: unpack on a directory unit and pack on a unit without unpacked
\* location raise GbpError, invoke no archive tool, return nothing and
\* leave the unit as it was.
C13_InvalidCallsRejectedFirst ==
    /\ (IsUnpack /\ isdir(fs_dirs, last_op[1].before._path)) =>
          /\ last_op[1].exc # <<>>
          /\ last_op[1].exc[1].type = "GbpError"
          /\ last_op[1].tools = <<>>
          /\ self[1] = last_op[1].before
    /\ (IsPack /\ last_op[1].before.unpacked = None) =>
          /\ last_op[1].exc # <<>>
          /\ last_op[1].exc[1].type = "GbpError"
          /\ last_op[1].tools = <<>>
          /\ last_op[1].ret = <<>>
          /\ self[1] = last_op[1].before

C13_Witness ==
    /\ IsUnpack
    /\ name = a_directory
    /\ last_op[1].filters = PyList(<<exclude_git>>)
    /\ last_op[1].exc = GbpError("Cannot unpack directory %s")
    /\ last_op[1].tools = <<>>
    /\ self[1].unpacked = a_directory

\* a call that got past the check of the unit itself
PastUnitCheck ==
    \/ IsUnpack /\ ~isdir(fs_dirs, last_op[1].before._path)
    \/ IsPack /\ last_op[1].before.unpacked \notin {None, <<>>}

\* C14 as stated: the usage error is raised exactly for the filter values
\* that are no sequence (list, tuple or string).
C14_UsageErrorIffNotSequence ==
    PastUnitCheck =>
        (last_op[1].exc = <<UsageError>>
            <=> last_op[1].filters.type \notin {"list", "tuple", "str"})

FalsyValues ==
    {PyList(<<>>), PyTuple(<<>>), PyStr(<<>>), PyNone, PyInt(<<"0">>)}

\* C14, amended: the usage error is raised exactly for the filter values
\* that are true and not of type list; a list reaches the tar tool as it
\* was passed, and a false value of any type reaches it as the empty list.
C14_UsageErrorIffTrueNonList ==
    PastUnitCheck =>
        /\ last_op[1].exc = <<UsageError>>
              <=> (last_op[1].filters \notin FalsyValues
                      /\ last_op[1].filters.type # "list")
        /\ last_op[1].exc = <<UsageError>> => last_op[1].tools = <<>>
        /\ \A k \in 1..Len(last_op[1].tools) :
              last_op[1].tools[k].tool
                  \in {"UnpackTarArchive", "PackTarArchive"} =>
                last_op[1].tools[k].filters =
                    IF last_op[1].filters \in FalsyValues
                    THEN PyList(<<>>)
                    ELSE last_op[1].filters

\* a non-empty tuple is rejected although it is a sequence
C14_Witness ==
    /\ IsPack
    /\ PastUnitCheck
    /\ last_op[1].filters = PyTuple(<<exclude_git>>)
    /\ last_op[1].exc = <<UsageError>>

\* the entries the target directory holds, hidden ones included
EntryNames   == {pkg_dir, git_dir, readme_file}
EntriesOf(d) ==
    {d \o <<"/">> \o n : n \in EntryNames} \cap (fs_dirs \cup fs_files)

\* C15: after a successful unpack, unpacked is the only entry of the
\* target directory if there is exactly one (hidden ones counted) and it
\* is a directory; otherwise it is the target directory itself, as 't/.'.
C15_ToplevelOfTargetDir ==
    (IsUnpack /\ last_op[1].exc = <<>>) =>
        LET d == last_op[1].target
        IN  IF Cardinality(EntriesOf(d)) = 1 /\ EntriesOf(d) \subseteq fs_dirs
            THEN self[1].unpacked \in EntriesOf(d)
            ELSE self[1].unpacked = d \o <<"/", ".">>

\* one visible directory next to a hidden one: the target directory it is
C15_Witness ==
    /\ IsUnpack
    /\ last_op[1].exc = <<>>
    /\ EntriesOf(TargetDir) = {TargetDir \o <<"/">> \o pkg_dir,
                               TargetDir \o <<"/">> \o git_dir}
    /\ self[1].unpacked = TargetDir \o <<"/", ".">>

\* C16: pack leaves the unit as it was.  When it succeeds it returns a
\* unit whose path is the new archive's, whose format and compression are
\* those parsed from that path's last component, and whose unpacked is
\* None unless the path is a directory; when the tool fails it raises an
\* error and returns nothing.
C16_PackReturnsFreshUnit ==
    IsPack =>
        /\ self[1] = last_op[1].before
        /\ last_op[1].exc = <<>> =>
              /\ Len(last_op[1].ret) = 1
              /\ last_op[1].ret[1]._path = last_op[1].target
              /\ LET r == parse_archive_filename(
                              basename(rstrip(last_op[1].target, "/")))
                 IN  /\ last_op[1].ret[1]._archive_fmt = r[2]
                     /\ last_op[1].ret[1]._compression = r[3]
              /\ ~isdir(fs_dirs, last_op[1].target) =>
                    last_op[1].ret[1].unpacked = None
        /\ (last_op[1].tools # <<>> /\ ~last_op[1].ok) =>
              /\ last_op[1].exc # <<>>
              /\ last_op[1].ret = <<>>

\* an unpacked gzip tarball packed as a zip file
C16_Witness ==
    /\ IsPack
    /\ last_op[1].exc = <<>>
    /\ name = a_tarball
    /\ self[1]._archive_fmt = tar /\ self[1]._compression = gzip
    /\ self[1].unpacked = TargetDir \o <<"/">> \o pkg_dir
    /\ last_op[1].target = new_zip
    /\ last_op[1].ret[1]._archive_fmt = zip
    /\ last_op[1].ret[1]._compression = None
    /\ last_op[1].ret[1].unpacked = None

\* the last component of the unpacked tree of the unit that was packed
PackedLeaf == basename(rstrip(last_op[1].before.unpacked, "/"))

\* the rule the tar tool of the last call was given
GivenRule == last_op[1].tools[1].transform

\* C17 as stated: without a prefix there is no rule; with one, only its
\* leading '/' and '.' characters are stripped, and the rule maps the
\* leaf of the unpacked tree to what is left, or to '.' if nothing is.
C17_RuleStripsLeadingOnly ==
    (IsPack /\ last_op[1].tools # <<>>) =>
        IF last_op[1].newprefix = None
        THEN GivenRule = None
        ELSE LET c == lstrip(last_op[1].newprefix, {"/", "."})
             IN  GivenRule =
                   sed_expr(PackedLeaf, IF c # <<>> THEN c ELSE dot)

\* c is s without the '/' and '.' characters at its two ends
IsCleaned(s, c) ==
    \E i \in 1..(Len(s)+1) : \E j \in (i-1)..Len(s) :
        /\ c = SubSeq(s, i, j)
        /\ \A k \in 1..(i-1) : s[k] \in {"/", "."}
        /\ \A k \in (j+1)..Len(s) : s[k] \in {"/", "."}
        /\ c # <<>> => (c[1] \notin {"/", "."} /\ c[Len(c)] \notin {"/", "."})

\* C17, amended: without a prefix there is no rule; with one, its '/' and
\* '.' characters are stripped at both ends, and the rule maps the leaf of
\* the unpacked tree to what is left, or to '.' if nothing is.
C17_RuleStripsBothEnds ==
    (IsPack /\ last_op[1].tools # <<>>) =>
        IF last_op[1].newprefix = None
        THEN GivenRule = None
        ELSE \E c \in Prefixes(lstrip(last_op[1].newprefix, {"/", "."})) :
                /\ IsCleaned(last_op[1].newprefix, c)
                /\ GivenRule =
                     sed_expr(PackedLeaf, IF c # <<>> THEN c ELSE dot)

\* the prefix 'q/' lost its trailing slash
C17_Witness ==
    /\ IsPack
    /\ last_op[1].newprefix = <<"q", "/">>
    /\ last_op[1].before.unpacked = TargetDir \o <<"/">> \o pkg_dir
    /\ last_op[1].tools # <<>>
    /\ GivenRule = <<"s","!","p","k","g","!","q","!">>

(***************************************************************************)
(* git_archive_submodules (gbp/scripts/common/buildpackage.py).  The call  *)
(* is a process that takes one external step at a time: making the         *)
(* temporary directory, archiving a tree, concatenating two archives,      *)
(* compressing or moving the result, removing the temporary directory.     *)
(* Each step but the last may fail.  A tree is 0 for the root and k for    *)
(* the k-th submodule that repo.get_submodules enumerates.                 *)
(***************************************************************************)
MaxSubmodules == 2
MaxExitCode   == 2

\* the directory of the k-th submodule, as get_submodules reports it
subdir(k) ==
    (IF k % 2 = 1 THEN <<".", "/">> ELSE <<>>)
        \o <<"s", "u", "b">> \o [i \in 1..k |-> "x"]

Formats    == {tar, zip}
CompTypes  == {None, <<>>, gzip}
ExitCodes  == 0..MaxExitCode

\* tarpath = [subdir, subdir[2:]][subdir.startswith("./")]
tarpath(sd) ==
    IF StartsWithAt(sd, 1, <<".", "/">>) THEN SubSeq(sd, 3, Len(sd)) ELSE sd

\* os.system(cmd): the wait status of a command that exited with 'code'
os_system(code) == (code % 256) * 256

\* a concatenation that knows tar archives only
catenation_tar_only(format) ==
    IF format = tar THEN <<"CatenateTarArchive">> ELSE <<>>

\* the tool that appends the submodule archive to the main one; none for
\* a format that is neither 'tar' nor 'zip'
catenation(format) ==
    IF format = tar THEN <<"CatenateTarArchive">>
    ELSE IF format = zip THEN <<"CatenateZipArchive">>
    ELSE <<>>

\* a test that takes every comp_type but None for a compressor
uses_compressor_unless_none(comp_type) == comp_type # None

\* 'if comp_type:'
uses_compressor(comp_type) == comp_type # None /\ comp_type # <<>>

\* a failure that leaves the function at once
after_error_no_cleanup == "raised"

\* where an exception raised inside the try block continues
after_error == "finally"

\* the statement after the body of the loop for submodule i of n
after_body(i, n) == IF i < n THEN "subrepo" ELSE "output"

Event(step, tree, arg, ok) ==
    [step |-> step, tree |-> tree, arg |-> arg, ok |-> ok]

Raise(type, ret) == <<[type |-> type, ret |-> ret]>>

InitArchive ==
    /\ ga_args \in {<<[submodules |-> [k \in 1..n |-> subdir(k)],
                       comp_type |-> c, format |-> f]>> :
                       n \in 0..MaxSubmodules, c \in CompTypes, f \in Formats}
    /\ ga_pc = "mkdtemp"
    /\ ga_i = 0
    /\ ga_tempdir = FALSE
    /\ ga_main = <<>> /\ ga_sub = <<>> /\ ga_output = <<>>
    /\ ga_exc = <<>> /\ ga_log = <<>>
    /\ IdleParse
    /\ IdleSource
    /\ IdleLink
    /\ IdlePack
    /\ IdleStale
    /\ IdleIndex
    /\ IdleImport

\* tempdir = tempfile.mkdtemp(...), before the try block
Mkdtemp ==
    /\ ga_pc = "mkdtemp"
    /\ \E ok \in BOOLEAN :
        /\ ga_tempdir' = ok
        /\ ga_pc' = IF ok THEN "archive_main" ELSE "raised"
        /\ ga_exc' = IF ok THEN <<>> ELSE Raise("OSError", 0)
    /\ UNCHANGED <<ga_args, ga_i, ga_main, ga_sub, ga_output, ga_log,
                   parse_vars, source_vars, link_vars, pack_vars,
                   stale_vars, index_vars, import_vars>>

\* repo.archive(format, prefix, output=main_archive, treeish)
ArchiveMain ==
    /\ ga_pc = "archive_main"
    /\ \E ok \in BOOLEAN :
        /\ ga_log' = Append(ga_log, Event("archive", 0, <<>>, ok))
        /\ ga_main' = IF ok THEN <<0>> ELSE ga_main
        /\ ga_pc' = IF ok THEN "get_submodules" ELSE after_error
        /\ ga_exc' = IF ok THEN <<>> ELSE Raise("GitRepositoryError", 0)
    /\ UNCHANGED <<ga_args, ga_i, ga_tempdir, ga_sub, ga_output,
                   parse_vars, source_vars, link_vars, pack_vars,
                   stale_vars, index_vars, import_vars>>

\* repo.get_submodules(treeish), and the start of the loop
GetSubmodules ==
    /\ ga_pc = "get_submodules"
    /\ \E ok \in BOOLEAN :
        /\ ga_log' = Append(ga_log, Event("get_submodules", 0, <<>>, ok))
        /\ ga_pc' = IF ok THEN after_body(0, Len(ga_args[1].submodules))
                    ELSE after_error
        /\ ga_exc' = IF ok THEN <<>> ELSE Raise("GitRepositoryError", 0)
    /\ UNCHANGED <<ga_args, ga_i, ga_tempdir, ga_main, ga_sub, ga_output,
                   parse_vars, source_vars, link_vars, pack_vars,
                   stale_vars, index_vars, import_vars>>

\* the next (subdir, commit), and subrepo = GitRepository(subdir)
Subrepo ==
    /\ ga_pc = "subrepo"
    /\ ga_i' = ga_i + 1
    /\ \E ok \in BOOLEAN :
        /\ ga_log' = Append(ga_log, Event("subrepo", ga_i + 1, <<>>, ok))
        /\ ga_pc' = IF ok THEN "archive_sub" ELSE after_error
        /\ ga_exc' = IF ok THEN <<>> ELSE Raise("GitRepositoryError", 0)
    /\ UNCHANGED <<ga_args, ga_tempdir, ga_main, ga_sub, ga_output,
                   parse_vars, source_vars, link_vars, pack_vars,
                   stale_vars, index_vars, import_vars>>

\* subrepo.archive(format, prefix, output=submodule_archive, treeish=commit)
ArchiveSub ==
    /\ ga_pc = "archive_sub"
    /\ \E ok \in BOOLEAN :
        /\ ga_log' = Append(ga_log,
                        Event("archive", ga_i,
                              tarpath(ga_args[1].submodules[ga_i]), ok))
        /\ ga_sub' = IF ok THEN <<ga_i>> ELSE <<>>
        /\ ga_pc' = IF ~ok THEN after_error
                    ELSE IF catenation(ga_args[1].format) # <<>>
                    THEN "catenate"
                    ELSE after_body(ga_i, Len(ga_args[1].submodules))
        /\ ga_exc' = IF ok THEN <<>> ELSE Raise("GitRepositoryError", 0)
    /\ UNCHANGED <<ga_args, ga_i, ga_tempdir, ga_main, ga_output,
                   parse_vars, source_vars, link_vars, pack_vars,
                   stale_vars, index_vars, import_vars>>

\* CatenateTarArchive(main_archive)(submodule_archive), or the zip one
Catenate ==
    /\ ga_pc = "catenate"
    /\ \E ok \in BOOLEAN :
        /\ ga_log' = Append(ga_log,
                        Event("catenate", ga_i,
                              catenation(ga_args[1].format)[1], ok))
        /\ ga_main' = IF ok THEN ga_main \o ga_sub ELSE ga_main
        /\ ga_pc' = IF ok THEN after_body(ga_i, Len(ga_args[1].submodules))
                    ELSE after_error
        /\ ga_exc' = IF ok THEN <<>> ELSE Raise("CommandExecFailed", 0)
    /\ UNCHANGED <<ga_args, ga_i, ga_tempdir, ga_sub, ga_output,
                   parse_vars, source_vars, link_vars, pack_vars,
                   stale_vars, index_vars, import_vars>>

\* ret = os.system("<comp_type> --stdout ... main_archive > output");
\* if ret: raise GbpError("Error creating %s: %d" % (output, ret))
Compress ==
    /\ ga_pc = "output"
    /\ uses_compressor(ga_args[1].comp_type)
    /\ \E code \in ExitCodes :
        LET ret == os_system(code)
        IN  /\ ga_log' = Append(ga_log,
                            Event("compress", 0, ga_args[1].comp_type,
                                  ret = 0))
            /\ ga_output' = <<[how |-> "compress", trees |-> ga_main,
                               exit |-> code]>>
            /\ ga_pc' = IF ret # 0 THEN after_error ELSE "finally"
            /\ ga_exc' = IF ret # 0 THEN Raise("GbpError", ret) ELSE <<>>
    /\ UNCHANGED <<ga_args, ga_i, ga_tempdir, ga_main, ga_sub,
                   parse_vars, source_vars, link_vars, pack_vars,
                   stale_vars, index_vars, import_vars>>

\* shutil.move(main_archive, output)
Move ==
    /\ ga_pc = "output"
    /\ ~uses_compressor(ga_args[1].comp_type)
    /\ \E ok \in BOOLEAN :
        /\ ga_log' = Append(ga_log, Event("move", 0, <<>>, ok))
        /\ ga_output' = IF ok
                        THEN <<[how |-> "move", trees |-> ga_main,
                                exit |-> 0]>>
                        ELSE ga_output
        /\ ga_main' = IF ok THEN <<>> ELSE ga_main
        /\ ga_pc' = IF ok THEN "finally" ELSE after_error
        /\ ga_exc' = IF ok THEN <<>> ELSE Raise("IOError", 0)
    /\ UNCHANGED <<ga_args, ga_i, ga_tempdir, ga_sub,
                   parse_vars, source_vars, link_vars, pack_vars,
                   stale_vars, index_vars, import_vars>>

\* finally: shutil.rmtree(tempdir); then the return, or the exception
\* goes on to the caller
Finally ==
    /\ ga_pc = "finally"
    /\ ga_log' = Append(ga_log, Event("rmtree", 0, <<>>, TRUE))
    /\ ga_tempdir' = FALSE
    /\ ga_main' = <<>>
    /\ ga_sub' = <<>>
    /\ ga_pc' = IF ga_exc = <<>> THEN "returned" ELSE "raised"
    /\ UNCHANGED <<ga_args, ga_i, ga_output, ga_exc,
                   parse_vars, source_vars, link_vars, pack_vars,
                   stale_vars, index_vars, import_vars>>

NextArchive ==
    \/ Mkdtemp \/ ArchiveMain \/ GetSubmodules \/ Subrepo \/ ArchiveSub
    \/ Catenate \/ Compress \/ Move \/ Finally

SpecArchive == InitArchive /\ [][NextArchive]_vars

(***************************************************************************)
(* Properties of git_archive_submodules.                                   *)
(***************************************************************************)
Ended == ga_pc \in {"returned", "raised"}

\* C18: when git_archive_submodules has returned or raised, whatever the
\* step that failed, the temporary directory of the call does not exist.
C18_TempdirRemovedOnEveryExit ==
    Ended => ~ga_tempdir

\* the concatenation failed, the directory was removed, the error goes on
C18_Witness ==
    /\ ga_pc = "raised"
    /\ ga_exc = Raise("CommandExecFailed", 0)
    /\ ~ga_tempdir
    /\ ga_log[Len(ga_log)].step = "rmtree"
    /\ ga_log[Len(ga_log) - 1] =
          Event("catenate", 1, "CatenateTarArchive", FALSE)

\* the positions of the log at which a step of the given kind stands
StepsOf(what) == {k \in 1..Len(ga_log) : ga_log[k].step = what}

\* C19: with a compression name, a compressor that exits with a code other
\* than 0 makes the call fail with a GbpError that carries the status of
\* that exit; without a compression name no compressor is run and the
\* merged archive is moved to the output as it is.
C19_CompressOrMove ==
    /\ (ga_output # <<>> /\ ga_output[1].how = "compress"
            /\ ga_output[1].exit # 0) =>
          /\ ga_pc \in {"finally", "raised"}
          /\ ga_exc # <<>>
          /\ ga_exc[1].type = "GbpError"
          /\ ga_exc[1].ret \div 256 = ga_output[1].exit
          /\ ga_exc[1].ret % 256 = 0
    /\ (ga_args # <<>> /\ ga_args[1].comp_type \in {None, <<>>}) =>
          /\ StepsOf("compress") = {}
          /\ ga_pc = "returned" =>
                /\ ga_output # <<>>
                /\ ga_output[1].how = "move"
                /\ ga_output[1].trees =
                      [k \in 1..(Len(ga_args[1].submodules) + 1) |-> k - 1]
    /\ (ga_args # <<>> /\ ga_args[1].comp_type \notin {None, <<>>}) =>
          StepsOf("move") = {}

\* gzip exited with code 1: the call has raised GbpError with status 256
C19_Witness ==
    /\ ga_pc = "raised"
    /\ ga_args[1].comp_type = gzip
    /\ ga_output # <<>>
    /\ ga_output[1].exit = 1
    /\ ga_exc = Raise("GbpError", 256)

\* C20: the root tree is archived first; each submodule, in the order of
\* enumeration, is archived and then concatenated onto the main archive
\* before the next one is archived; the compression or the move happens
\* once, after all submodules are concatenated; after a failed step
\* nothing follows but the removal of the temporary directory, and the
\* output is never made of a partly merged archive.
C20_StepsInOrder ==
    /\ ga_log # <<>> => ga_log[1] = Event("archive", 0, <<>>, ga_log[1].ok)
    /\ \A k \in StepsOf("archive") :
          \* archives are made in the order root, 1, 2, ...
          /\ ga_log[k].tree = Cardinality({j \in StepsOf("archive") : j < k})
          \* and the one before has been concatenated in between
          /\ ga_log[k].tree > 1 =>
                \E c \in StepsOf("catenate") :
                    /\ c < k
                    /\ ga_log[c].tree = ga_log[k].tree - 1
                    /\ ga_log[c].ok
                    /\ \E a \in StepsOf("archive") :
                          a < c /\ ga_log[a].tree = ga_log[c].tree
    /\ \A c \in StepsOf("catenate") :
          \* a concatenation directly follows the archive it appends
          /\ c > 1
          /\ ga_log[c-1].step = "archive"
          /\ ga_log[c-1].tree = ga_log[c].tree
    /\ Cardinality(StepsOf("compress") \cup StepsOf("move")) <= 1
    /\ \A o \in StepsOf("compress") \cup StepsOf("move") :
          \A t \in 1..Len(ga_args[1].submodules) :
              \E c \in StepsOf("catenate") :
                  c < o /\ ga_log[c].tree = t /\ ga_log[c].ok
    /\ \A k \in 1..Len(ga_log) :
          ~ga_log[k].ok =>
              (k = Len(ga_log)
                  \/ (k + 1 = Len(ga_log) /\ ga_log[k+1].step = "rmtree"))
    /\ ga_output # <<>> =>
          ga_output[1].trees =
              [k \in 1..(Len(ga_args[1].submodules) + 1) |-> k - 1]

\* a zip archive with two submodules was merged and moved to the output
C20_Witness ==
    /\ ga_pc = "returned"
    /\ ga_args[1].format = zip
    /\ Len(ga_args[1].submodules) = 2
    /\ ga_output = <<[how |-> "move", trees |-> <<0, 1, 2>>, exit |-> 0]>>
    /\ [k \in 1..Len(ga_log) |-> <<ga_log[k].step, ga_log[k].tree>>] =
          << <<"archive", 0>>, <<"get_submodules", 0>>,
             <<"subrepo", 1>>, <<"archive", 1>>, <<"catenate", 1>>,
             <<"subrepo", 2>>, <<"archive", 2>>, <<"catenate", 2>>,
             <<"move", 0>>, <<"rmtree", 0>> >>

(***************************************************************************)
(* A unit whose path changes kind after construction: the archive file is  *)
(* replaced by a directory of the same name, or the directory by a file.   *)
(* dirs0 keeps the directories of the file system the constructor saw.     *)
(***************************************************************************)
versioned_dir     == <<"f","o","o","-","1",".","0">>
versioned_tarball == versioned_dir \o dot \o tar \o dot \o gz
StaleNames == {versioned_dir, versioned_tarball}
UsualCalls == {[filters |-> PyList(<<>>), env |-> usual_env]}

InitStale ==
    /\ name \in StaleNames
    /\ unpacked_arg = None
    /\ fs_dirs \in {{TargetDir}, {TargetDir, name}}
    /\ fs_files = {name} \ fs_dirs
    /\ dirs0 = fs_dirs
    /\ is_dir_ret = <<>>
    /\ self = <<>>
    /\ guessed = <<>>
    /\ last_op = <<>>
    /\ IdleParse
    /\ IdleLink
    /\ IdleArchive
    /\ IdleIndex
    /\ IdleImport

\* the environment replaces the file at the unit's path by a directory,
\* or the directory by a file
ChangeKind ==
    /\ self # <<>>
    /\ IF name \in fs_dirs
       THEN fs_dirs' = fs_dirs \ {name} /\ fs_files' = fs_files \cup {name}
       ELSE fs_dirs' = fs_dirs \cup {name} /\ fs_files' = fs_files \ {name}
    /\ UNCHANGED <<name, unpacked_arg, self, guessed, last_op, dirs0,
                   is_dir_ret, parse_vars, link_vars, archive_vars,
                   index_vars, import_vars>>

\* src.is_dir()
IsDir ==
    /\ self # <<>>
    /\ is_dir_ret' = <<is_dir(self[1], fs_dirs)>>
    /\ UNCHANGED <<dirs0, parse_vars, source_vars, link_vars, pack_vars,
                   archive_vars, index_vars, import_vars>>

\* src.unpack(dir) with the default filters and a tool that succeeds
UnpackUsual == UnpackWith(UsualCalls)

NextStale == Construct \/ ChangeKind \/ IsDir \/ UnpackUsual \/ GuessVersion

SpecStale == InitStale /\ [][NextStale]_vars

(***************************************************************************)
(* Properties of a unit whose path changes kind.                           *)
(***************************************************************************)
CannotUnpack == GbpError("Cannot unpack directory %s")

\* what guess_version() returns for the names of StaleNames: a directory
\* needs no suffix and the version runs to the end of the name, a file
\* needs the suffix of a compressed tarball
GuessFor(n, as_dir) ==
    IF as_dir
    THEN <<<<"f","o","o">>, SubSeq(n, 5, Len(n))>>
    ELSE IF n = versioned_tarball
    THEN <<<<"f","o","o">>, <<"1",".","0">>>>
    ELSE None

\* the three uses of the directory test answer as for a path of kind k
AnswersFor(k) ==
    /\ is_dir_ret' # is_dir_ret => is_dir_ret'[1] = k
    /\ last_op' # last_op => ((last_op'[1].exc = CannotUnpack) <=> k)
    /\ (guessed' # guessed /\ guessed'[1].extra = <<>>) =>
          guessed'[1].ret.val = GuessFor(name, k)

\* C21 as stated: is_dir(), the directory check of unpack and the suffix
\* choice of guess_version answer with the kind the path had when the unit
\* was constructed, also after the path has changed kind.
C21_KindFixedAtConstruction ==
    [][self # <<>> => AnswersFor(isdir(dirs0, name))]_vars

\* C21, amended: is_dir(), the directory check of unpack and the suffix
\* choice of guess_version answer with the kind the path has at the time
\* of the call; what stays as observed at construction is the tarball flag
\* and the unpacked location the constructor set.
C21_KindAskedAtEachCall ==
    [][self # <<>> =>
          /\ AnswersFor(isdir(fs_dirs, name))
          /\ self[1]._tarball =
                (~isdir(dirs0, name) /\ name = versioned_tarball)
          /\ (fs_dirs' # fs_dirs /\ last_op' = last_op) => self' = self]_vars

\* constructed on a tarball that later became a directory: is_dir() says
\* True while the unit still counts as a tarball
C21_Witness ==
    /\ self # <<>>
    /\ name = versioned_tarball
    /\ ~isdir(dirs0, name)
    /\ isdir(fs_dirs, name)
    /\ is_dir_ret = <<TRUE>>
    /\ self[1]._tarball
    /\ last_op # <<>> /\ last_op[1].exc = CannotUnpack
    /\ guessed # <<>>
    /\ guessed[1].ret.val = <<<<"f","o","o">>, <<"1",".","0",".","t","a","r",".","g","z">>>>

(***************************************************************************)
(* unpack on archives of different names: which tool it runs.              *)
(***************************************************************************)
StrategyNames ==
    { <<"p",".","z","i","p">>,                 \* p.zip
      <<"p",".","x","p","i">>,                 \* p.xpi
      <<"p",".","t","a","r",".","g","z">>,     \* p.tar.gz
      <<"p",".","z","i","p",".","g","z">>,     \* p.zip.gz
      <<"p",".","Z","I","P">>,                 \* p.ZIP
      <<"d",".","z","i","p","/","p">>,         \* d.zip/p
      <<"n","o","e","x","t">>,                 \* noext
      <<".","z","i","p">> }                    \* .zip, a name without extension

InitStrategy ==
    /\ name \in StrategyNames
    /\ unpacked_arg = None
    /\ fs_dirs = {TargetDir}
    /\ fs_files = {name}
    /\ self = <<>>
    /\ guessed = <<>>
    /\ last_op = <<>>
    /\ IdleParse
    /\ IdleLink
    /\ IdleArchive
    /\ IdleStale
    /\ IdleIndex
    /\ IdleImport

NextStrategy == Construct \/ Unpack

SpecStrategy == InitStrategy /\ [][NextStrategy]_vars

\* the final extension of a path: the text from the last dot of its last
\* component, if a character other than a dot stands before that dot in
\* the component; else nothing
FinalExtension(p) ==
    LET b    == basename(p)
        dots == {k \in 1..Len(b) : b[k] = "."}
    IN  IF dots = {} THEN <<>>
        ELSE IF \A j \in 1..(Max(dots) - 1) : b[j] = "." THEN <<>>
        ELSE SubSeq(b, Max(dots), Len(b))

\* C22: an unpack call that gets to unpacking runs exactly one tool, which
\* the final extension of the path alone decides: the zip tool, without
\* filters, for '.zip' and '.xpi', and the tar tool, with the filter list
\* as passed, for every other path.
C22_ToolByFinalExtension ==
    (IsUnpack /\ PastUnitCheck /\ last_op[1].exc # <<UsageError>>) =>
        /\ Len(last_op[1].tools) = 1
        /\ last_op[1].tools[1].archive = name
        /\ IF FinalExtension(name) \in {<<".","z","i","p">>, <<".","x","p","i">>}
           THEN /\ last_op[1].tools[1].tool = "UnpackZipArchive"
                /\ DOMAIN last_op[1].tools[1] = {"tool", "archive", "dir"}
           ELSE /\ last_op[1].tools[1].tool = "UnpackTarArchive"
                /\ last_op[1].filters.type = "list" =>
                      last_op[1].tools[1].filters = last_op[1].filters

\* p.xpi went to the zip tool although filters were passed
C22_Witness ==
    /\ IsUnpack
    /\ name = <<"p",".","x","p","i">>
    /\ last_op[1].filters = PyList(<<exclude_git>>)
    /\ last_op[1].tools =
          <<[tool |-> "UnpackZipArchive", archive |-> name,
             dir |-> TargetDir]>>

(***************************************************************************)
(* write_wc, drop_index and clone_index (buildpackage.py).  The state is   *)
(* the two index files of the repository.  The content of .git/index is a  *)
(* version number; the content of .git/gbp_index is the version it was     *)
(* copied from (<<>> when git made it from nothing) and whether the        *)
(* working copy has been added to it.                                      *)
(***************************************************************************)
MaxIndexVersion == 2

IndexContents == {<<v>> : v \in 1..MaxIndexVersion}

\* clone_index(): copies .git/index over the custom index if it exists
clone_index(fs) ==
    IF fs.index # <<>>
    THEN [fs EXCEPT !.gbp = <<[base |-> fs.index, wc |-> FALSE]>>]
    ELSE fs

\* drop_index(): removes the custom index if it exists
drop_index(fs) ==
    IF fs.gbp # <<>> THEN [fs EXCEPT !.gbp = <<>>] ELSE fs

\* repo.add_files(repo.path, ..., index_file=wc_index): git adds the
\* working copy to the custom index, which it creates if there is none
add_files(fs) ==
    IF fs.gbp # <<>>
    THEN [fs EXCEPT !.gbp = <<[base |-> fs.gbp[1].base, wc |-> TRUE]>>]
    ELSE [fs EXCEPT !.gbp = <<[base |-> <<>>, wc |-> TRUE]>>]

\* write_wc(repo): the file system afterwards, the tree written (as the
\* content of the index it was written from) and the exception; env says
\* which git command fails
write_wc(fs, env) ==
    LET cloned == clone_index(fs)
        added  == add_files(cloned)
    IN  IF env = "add_files fails"
        THEN [fs |-> cloned, tree |-> <<>>,
              exc |-> <<"GitRepositoryError">>]
        ELSE IF env = "write_tree fails"
        THEN [fs |-> added, tree |-> <<>>, exc |-> <<"GitRepositoryError">>]
        ELSE [fs |-> added, tree |-> added.gbp, exc |-> <<>>]

InitIndex ==
    /\ git_index \in {<<>>} \cup IndexContents
    /\ gbp_index = <<>>
    /\ wc_call = <<>>
    /\ IdleParse
    /\ IdleSource
    /\ IdleLink
    /\ IdlePack
    /\ IdleArchive
    /\ IdleStale
    /\ IdleImport

\* tree = write_wc(repo)
WriteWc ==
    /\ \E env \in {"ok", "add_files fails", "write_tree fails"} :
        LET r == write_wc([index |-> git_index, gbp |-> gbp_index], env)
        IN  /\ git_index' = r.fs.index
            /\ gbp_index' = r.fs.gbp
            /\ wc_call' = <<[op |-> "write_wc", index |-> git_index,
                             left_over |-> gbp_index, tree |-> r.tree,
                             exc |-> r.exc]>>
    /\ UNCHANGED <<parse_vars, source_vars, link_vars, pack_vars,
                   archive_vars, stale_vars, import_vars>>

\* drop_index()
DropIndex ==
    /\ LET fs == drop_index([index |-> git_index, gbp |-> gbp_index])
       IN  /\ git_index' = fs.index
           /\ gbp_index' = fs.gbp
    /\ wc_call' = <<[op |-> "drop_index", index |-> git_index,
                     left_over |-> gbp_index, tree |-> <<>>, exc |-> <<>>]>>
    /\ UNCHANGED <<parse_vars, source_vars, link_vars, pack_vars,
                   archive_vars, stale_vars, import_vars>>

\* git, outside these functions, rewrites or removes .git/index
ChangeIndex ==
    /\ git_index' \in ({<<>>} \cup IndexContents) \ {git_index}
    /\ UNCHANGED <<gbp_index, wc_call, parse_vars, source_vars, link_vars,
                   pack_vars, archive_vars, stale_vars, import_vars>>

NextIndex == WriteWc \/ DropIndex \/ ChangeIndex

SpecIndex == InitIndex /\ [][NextIndex]_vars

\* C23: the tree of every write_wc is written from a custom index derived
\* in that call from the .git/index of the time (from nothing if there is
\* no .git/index), never from one an earlier call left; and after
\* drop_index there is no custom index.
C23_CustomIndexAlwaysFresh ==
    /\ (wc_call # <<>> /\ wc_call[1].op = "write_wc"
            /\ wc_call[1].exc = <<>>) =>
          wc_call[1].tree = <<[base |-> wc_call[1].index, wc |-> TRUE]>>
    /\ (wc_call # <<>> /\ wc_call[1].op = "drop_index") => gbp_index = <<>>

(***************************************************************************)
(* import_spec_patches (gbp/scripts/import_srpm.py).  The call is a        *)
(* process that takes one step per call it makes on the repository or on   *)
(* the patches.  A commit is the commit the branch started at and the      *)
(* patches committed on top of it; a patch is its number in the series     *)
(* and the directory its file lies in.                                     *)
(***************************************************************************)
MaxPatches == 4

Commits0 == {"c0", "c1"}

\* spec.patchseries() for a spec file with n patches
patchseries(n) == [k \in 1..n |-> [id |-> k, dir |-> "spec"]]

\* safe_patches(queue, tmpdir)[1]: the series, with the files copied to
\* tmpdir
safe_patches(queue) == [k \in 1..Len(queue) |-> [queue[k] EXCEPT !.dir = "tmp"]]

\* an except clause that handles GbpError only
caught_gbp_error_only(type) == type = "GbpError"

\* except (GbpError, GitRepositoryError)
caught(type) == type \in {"GbpError", "GitRepositoryError"}

\* the statement after patch i of n has been applied
after_patch(i, n) == IF i < n THEN "apply" ELSE "returned"

InitImport ==
    /\ ip_queue \in {<<patchseries(n)>> : n \in 0..MaxPatches}
    /\ ip_pc = "rev_parse"
    /\ ip_i = 0
    /\ ip_head \in {<<[base |-> c, applied |-> <<>>]>> : c \in Commits0}
    /\ ip_orig_head = <<>>
    /\ ip_exc = <<>>
    /\ ip_log = <<>>
    /\ IdleParse
    /\ IdleSource
    /\ IdleLink
    /\ IdlePack
    /\ IdleArchive
    /\ IdleStale
    /\ IdleIndex

\* orig_head = repo.rev_parse("HEAD")
RevParse ==
    /\ ip_pc = "rev_parse"
    /\ \E ok \in BOOLEAN :
        /\ ip_orig_head' = IF ok THEN ip_head ELSE <<>>
        /\ ip_pc' = IF ok THEN "safe_patches" ELSE "raised"
        /\ ip_exc' = IF ok THEN <<>> ELSE <<"GitRepositoryError">>
        /\ ip_log' = Append(ip_log, [call |-> "rev_parse", patch |-> 0,
                                     ok |-> ok, to |-> <<>>])
    /\ UNCHANGED <<ip_queue, ip_i, ip_head, parse_vars, source_vars,
                   link_vars, pack_vars, archive_vars, stale_vars,
                   index_vars>>

\* queue = safe_patches(queue, tmpdir)[1], and the start of the loop
SafePatches ==
    /\ ip_pc = "safe_patches"
    /\ \E ok \in BOOLEAN :
        /\ ip_queue' = IF ok THEN <<safe_patches(ip_queue[1])>> ELSE ip_queue
        /\ ip_pc' = IF ok THEN after_patch(0, Len(ip_queue[1])) ELSE "raised"
        /\ ip_exc' = IF ok THEN <<>> ELSE <<"GbpError">>
        /\ ip_log' = Append(ip_log, [call |-> "safe_patches", patch |-> 0,
                                     ok |-> ok, to |-> <<>>])
    /\ UNCHANGED <<ip_i, ip_head, ip_orig_head, parse_vars, source_vars,
                   link_vars, pack_vars, archive_vars, stale_vars,
                   index_vars>>

\* apply_and_commit_patch(repo, patch) for the next patch of the queue;
\* an exception the except clause does not handle leaves the function.
\* The log entry keeps the outcome in 'to'.
ApplyPatch ==
    /\ ip_pc = "apply"
    /\ ip_i' = ip_i + 1
    /\ \E out \in {"ok", "GbpError", "GitRepositoryError"} :
        /\ ip_log' = Append(ip_log, [call |-> "apply_and_commit_patch",
                                     patch |-> ip_queue[1][ip_i + 1].id,
                                     ok |-> (out = "ok"), to |-> <<out>>])
        /\ ip_head' = IF out = "ok"
                      THEN <<[ip_head[1] EXCEPT !.applied =
                                 Append(@, ip_queue[1][ip_i + 1].id)]>>
                      ELSE ip_head
        /\ ip_pc' = IF out = "ok"
                    THEN after_patch(ip_i + 1, Len(ip_queue[1]))
                    ELSE IF caught(out) THEN "force_head" ELSE "raised"
        /\ ip_exc' = IF out = "ok" THEN <<>> ELSE <<out>>
    /\ UNCHANGED <<ip_queue, ip_orig_head, parse_vars, source_vars,
                   link_vars, pack_vars, archive_vars, stale_vars,
                   index_vars>>

\* repo.force_head(orig_head, hard=True); raise GbpError
ForceHead ==
    /\ ip_pc = "force_head"
    /\ ip_head' = ip_orig_head
    /\ ip_log' = Append(ip_log, [call |-> "force_head", patch |-> 0,
                                 ok |-> TRUE, to |-> ip_orig_head])
    /\ ip_exc' = <<"GbpError">>
    /\ ip_pc' = "raised"
    /\ UNCHANGED <<ip_queue, ip_i, ip_orig_head, parse_vars, source_vars,
                   link_vars, pack_vars, archive_vars, stale_vars,
                   index_vars>>

NextImport == RevParse \/ SafePatches \/ ApplyPatch \/ ForceHead

SpecImport == InitImport /\ [][NextImport]_vars

(***************************************************************************)
(* Properties of import_spec_patches.                                      *)
(***************************************************************************)
Applies == {k \in 1..Len(ip_log) : ip_log[k].call = "apply_and_commit_patch"}
Resets  == {k \in 1..Len(ip_log) : ip_log[k].call = "force_head"}

\* C24: the patches are applied in the order of the series; when one
\* fails with GbpError or GitRepositoryError no later one is tried, HEAD is
\* reset (hard) to the commit it was at before the first patch and
\* GbpError is raised; when all apply, HEAD is never reset.
C24_AllOrNothing ==
    /\ \A k \in Applies :
          /\ ip_log[k].patch = Cardinality({j \in Applies : j <= k})
          /\ ~ip_log[k].ok =>
                /\ \A j \in Applies : j <= k
                /\ k < Len(ip_log) =>
                      /\ k + 1 = Len(ip_log)
                      /\ ip_log[k+1].call = "force_head"
                      /\ ip_log[k+1].to = ip_orig_head
                /\ ip_pc \in {"force_head", "raised"}
                /\ ip_pc = "raised" =>
                      /\ Resets = {k + 1}
                      /\ ip_head = ip_orig_head
                      /\ ip_head[1].applied = <<>>
                      /\ ip_exc = <<"GbpError">>
    /\ ip_pc = "returned" =>
          /\ Resets = {}
          /\ ip_exc = <<>>
          /\ ip_head[1].base = ip_orig_head[1].base
          /\ ip_head[1].applied = [k \in 1..Len(ip_queue[1]) |-> k]
          /\ \A k \in 1..Len(ip_queue[1]) : ip_queue[1][k].id = k

\* the second of three patches failed in git: the first is undone
C24_Witness ==
    /\ ip_pc = "raised"
    /\ Len(ip_queue[1]) = 3
    /\ ip_exc = <<"GbpError">>
    /\ ip_head = <<[base |-> "c1", applied |-> <<>>]>>
    /\ [k \in 1..Len(ip_log) |-> <<ip_log[k].call, ip_log[k].patch, ip_log[k].ok>>] =
          << <<"rev_parse", 0, TRUE>>, <<"safe_patches", 0, TRUE>>,
             <<"apply_and_commit_patch", 1, TRUE>>,
             <<"apply_and_commit_patch", 2, FALSE>>,
             <<"force_head", 0, TRUE>> >>
    /\ ip_log[4].to = <<"GitRepositoryError">>

====
